---- MODULE Spec2Model ----
(***************************************************************************)
(* Model of the SQLite metadata segment of chromadb                         *)
(* (chromadb/segment/impl/sqlite_metadata.py): the primary table            *)
(* "embeddings", the entity-attribute-value table "embedding_metadata",     *)
(* the change-log callback _write_metadata and the read operations.         *)
(*                                                                          *)
(* Representation.                                                          *)
(*  - A SeqId is a big-endian sequence of bytes without leading zeros       *)
(*    (the Python int); its stored form is the 8- or 24-byte blob that      *)
(*    _encode_seq_id produces.                                              *)
(*  - A nullable SQL column holds <<>> (NULL) or <<v>>.                     *)
(*  - A metadata value is [t, s, n]: t in {"str","int","float","none"},     *)
(*    s the string, n the number (a float is kept in halves: 11 is 5.5).    *)
(*  - embedding_metadata is a bag of rows, embeddings a set of rows (its    *)
(*    id column is the primary key).                                        *)
(***************************************************************************)
EXTENDS Integers, Sequences, FiniteSets, Bags, TLC

VARIABLES
    log,                 \* the external change log: records in SeqId order
    base,                \* the SeqId the log's first record follows
    embeddings,          \* committed rows of table embeddings
    embedding_metadata,  \* committed rows of table embedding_metadata (a bag)
    next_rowid,          \* committed row id generator of table embeddings
    tx,                  \* the open transaction of _write_metadata, or NoTx
    subscription,        \* self._subscription: None or [start, cursor]
    error,               \* what the last callback invocation raised
    last,                \* the record _write_metadata handled last
    obs,                 \* what the last concurrent read returned
    crashes,             \* number of process crashes so far
    applied,             \* highest SeqId of a committed batch (history)
    segment,             \* life cycle: _topic, _subscription, calls so far
    consumer,            \* the log's Consumer: handles issued and active
    server,              \* chroma-server: app._db, app._ann_index, requests
    authz                \* the last call of a function wrapped by authz_context

vars == <<log, base, embeddings, embedding_metadata, next_rowid, tx,
          subscription, error, last, obs, crashes, applied, segment,
          consumer, server, authz>>

\* the state of the life cycle, of the server and of the authorization
others == <<segment, consumer, server, authz>>

(***************************************************************************)
(* Bounds of the model                                                      *)
(***************************************************************************)
MaxLog == 2
MaxBatch == 2
MaxCrashes == 1

Ids == {"a", "b"}
Keys == {"k1", "k2"}
SegmentId == "seg"
None == [none |-> TRUE]
NoTx == [open |-> FALSE]
NULL == <<>>

StrV(s) == [t |-> "str", s |-> s, n |-> 0]
IntV(n) == [t |-> "int", s |-> "", n |-> n]
FloatV(h) == [t |-> "float", s |-> "", n |-> h]
NoneV == [t |-> "none", s |-> "", n |-> 0]

\* record["metadata"]: a mapping key -> value; the empty mapping stands for
\* both None and {} (the code tests its truthiness only)
NoMetadata == [k \in {} |-> NoneV]
RedFive == [k \in {"k1", "k2"} |-> IF k = "k1" THEN StrV("red") ELSE IntV(5)]
Blue == [k \in {"k1"} |-> StrV("blue")]
DropK1 == [k \in {"k1"} |-> NoneV]
DropK1SetK2 == [k \in {"k1", "k2"} |-> IF k = "k1" THEN NoneV ELSE IntV(7)]

Operations == {"ADD", "UPSERT", "UPDATE", "DELETE"}

(***************************************************************************)
(* SeqId codec                                                              *)
(***************************************************************************)
Byte == 0..255

Range(f) == {f[i] : i \in DOMAIN f}

RECURSIVE Zeros(_)
Zeros(n) == IF n = 0 THEN <<>> ELSE <<0>> \o Zeros(n - 1)

RECURSIVE Strip(_)
\* int.from_bytes(b, "big"): the value, i.e. the bytes without leading zeros
Strip(b) == IF b = <<>> THEN <<>>
            ELSE IF Head(b) = 0 THEN Strip(Tail(b)) ELSE b

RECURSIVE BitsOfByte(_)
BitsOfByte(x) == IF x = 0 THEN 0 ELSE 1 + BitsOfByte(x \div 2)

\* int.bit_length()
bit_length(v) == IF v = <<>> THEN 0
                 ELSE 8 * (Len(v) - 1) + BitsOfByte(Head(v))

\* int.to_bytes(v, n, "big") for a value that fits
to_bytes(v, n) == Zeros(n - Len(v)) \o v

EncodeError == <<"ValueError">>

encode_seq_id(seq_id) ==
    IF bit_length(seq_id) < 64 THEN to_bytes(seq_id, 8)
    ELSE IF bit_length(seq_id) < 192 THEN to_bytes(seq_id, 24)
    ELSE EncodeError

\* a decoder that reads a byte string of any length
decode_seq_id_any(seq_id_bytes) == Strip(seq_id_bytes)

decode_seq_id(seq_id_bytes) ==
    IF Len(seq_id_bytes) = 8 THEN Strip(seq_id_bytes)
    ELSE IF Len(seq_id_bytes) = 24 THEN Strip(seq_id_bytes)
    ELSE EncodeError

RECURSIVE LexLess(_, _)
\* memcmp order of two byte strings, a proper prefix being smaller
LexLess(x, y) ==
    IF y = <<>> THEN FALSE
    ELSE IF x = <<>> THEN TRUE
    ELSE IF Head(x) # Head(y) THEN Head(x) < Head(y)
    ELSE LexLess(Tail(x), Tail(y))

\* the order SQLite gives two BLOB values (MAX, ORDER BY)
BlobLess(x, y) == LexLess(x, y)

\* the numeric order of two SeqIds
SeqLess(x, y) == \/ Len(x) < Len(y)
                 \/ Len(x) = Len(y) /\ LexLess(x, y)
SeqLeq(x, y) == x = y \/ SeqLess(x, y)

RECURSIVE Succ(_)
\* x + 1
Succ(v) ==
    IF v = <<>> THEN <<1>>
    ELSE LET n == Len(v)
             init == SubSeq(v, 1, n - 1)
         IN IF v[n] < 255 THEN init \o <<v[n] + 1>>
            ELSE Succ(init) \o <<0>>

RECURSIVE Plus(_, _)
Plus(v, n) == IF n = 0 THEN v ELSE Plus(Succ(v), n - 1)

(***************************************************************************)
(* The relational store.  A database state is                               *)
(* [embeddings, embedding_metadata, next_rowid]; a statement returns        *)
(* [err, db] (and the row id it RETURNs).                                    *)
(***************************************************************************)
DbOf(e, m, n) == [embeddings |-> e, embedding_metadata |-> m, next_rowid |-> n]

Ok == "ok"

EmbRow(id, embedding_id, seq_id) ==
    [id |-> id, segment_id |-> SegmentId, embedding_id |-> embedding_id,
     seq_id |-> seq_id]

MetaRow(id, key, sv, iv, fv) ==
    [id |-> id, key |-> key, string_value |-> sv, int_value |-> iv,
     float_value |-> fv]

\* rows of embeddings with the given segment and external id
EmbMatching(db, embedding_id) ==
    {r \in db.embeddings :
        r.segment_id = SegmentId /\ r.embedding_id = embedding_id}

\* number of rows of embedding_metadata with the given primary key (id, key)
MetaCount(meta, id, key) ==
    LET hit == {r \in BagToSet(meta) : r.id = id /\ r.key = key}
        RECURSIVE Sum(_)
        Sum(S) == IF S = {} THEN 0
                  ELSE LET r == CHOOSE x \in S : TRUE
                       IN CopiesIn(r, meta) + Sum(S \ {r})
    IN Sum(hit)

\* INSERT [OR REPLACE] INTO embeddings ... RETURNING id, under
\* UNIQUE (segment_id, embedding_id) and an auto-assigned, never reused id
SqlInsertEmbedding(db, embedding_id, seq_id, or_replace) ==
    LET clash == EmbMatching(db, embedding_id)
        id == db.next_rowid
        row == EmbRow(id, embedding_id, seq_id)
    IN IF clash # {} /\ ~or_replace
       THEN [err |-> "IntegrityError", db |-> db, id |-> 0]
       ELSE [err |-> Ok,
             db |-> [db EXCEPT !.embeddings = (@ \ clash) \cup {row},
                               !.next_rowid = @ + 1],
             id |-> id]

\* the statement on a table that has no key on (id, key)
SqlInsertMetadataNoKey(db, rows) ==
    [err |-> Ok,
     db |-> [db EXCEPT !.embedding_metadata = @ (+) SetToBag(Range(rows))]]

RECURSIVE SqlInsertMetadata(_, _)
\* INSERT INTO embedding_metadata VALUES row, row, ... under
\* PRIMARY KEY (id, key); a failing statement changes nothing
SqlInsertMetadata(db, rows) ==
    IF rows = <<>> THEN [err |-> Ok, db |-> db]
    ELSE LET r == Head(rows)
         IN IF MetaCount(db.embedding_metadata, r.id, r.key) > 0
            THEN [err |-> "IntegrityError", db |-> db]
            ELSE LET rest == SqlInsertMetadata(
                        [db EXCEPT !.embedding_metadata = @ (+) SetToBag({r})],
                        Tail(rows))
                 IN IF rest.err = Ok THEN rest
                    ELSE [err |-> rest.err, db |-> db]

\* DELETE FROM embedding_metadata WHERE id = ? AND key IN (?)
SqlDeleteMetadataKeys(db, id, keys) ==
    LET gone == {r \in BagToSet(db.embedding_metadata) :
                    r.id = id /\ r.key \in keys}
        kept == BagToSet(db.embedding_metadata) \ gone
    IN [db EXCEPT !.embedding_metadata =
            [r \in kept |-> CopiesIn(r, db.embedding_metadata)]]

\* DELETE FROM embedding_metadata WHERE id = ?
SqlDeleteMetadata(db, id) == SqlDeleteMetadataKeys(db, id, Keys)

(***************************************************************************)
(* Write path of SqliteMetadataSegment                                      *)
(***************************************************************************)
RECURSIVE SetToSeq(_)
\* the items of a mapping, in some fixed order (dict order is not observable
\* in the statement's effect)
SetToSeq(S) == IF S = {} THEN <<>>
               ELSE LET x == CHOOSE y \in S : TRUE
                    IN <<x>> \o SetToSeq(S \ {x})

\* a row for every item, with three NULL columns when the value is None
ValueRowOfNone(id, key, value) ==
    IF value.t = "str" THEN <<MetaRow(id, key, <<value.s>>, NULL, NULL)>>
    ELSE IF value.t = "int" THEN <<MetaRow(id, key, NULL, <<value.n>>, NULL)>>
    ELSE IF value.t = "float" THEN <<MetaRow(id, key, NULL, NULL, <<value.n>>)>>
    ELSE <<MetaRow(id, key, NULL, NULL, NULL)>>

\* the VALUES row _insert_metadata builds for one item; <<>> when the value
\* is neither str, int nor float (None)
ValueRow(id, key, value) ==
    IF value.t = "str" THEN <<MetaRow(id, key, <<value.s>>, NULL, NULL)>>
    ELSE IF value.t = "int" THEN <<MetaRow(id, key, NULL, <<value.n>>, NULL)>>
    ELSE IF value.t = "float" THEN <<MetaRow(id, key, NULL, NULL, <<value.n>>)>>
    ELSE <<>>

RECURSIVE ValueRows(_, _, _)
ValueRows(id, metadata, keys) ==
    IF keys = <<>> THEN <<>>
    ELSE ValueRow(id, Head(keys), metadata[Head(keys)])
         \o ValueRows(id, metadata, Tail(keys))

\* whether the statement _insert_metadata executes is INSERT OR REPLACE:
\* the result of sql.replace(...) is dropped, so it never is
MetadataOrReplace(upsert) == FALSE

insert_metadata(db, id, metadata, upsert) ==
    LET rows == ValueRows(id, metadata, SetToSeq(DOMAIN metadata))
    IN IF rows = <<>> THEN [err |-> Ok, db |-> db]
       ELSE IF MetadataOrReplace(upsert)
            THEN SqlInsertMetadata(
                    SqlDeleteMetadataKeys(db, id, {r.key : r \in Range(rows)}),
                    rows)
            ELSE SqlInsertMetadata(db, rows)

update_metadata(db, id, metadata) ==
    LET to_delete == {k \in DOMAIN metadata : metadata[k].t = "none"}
    IN insert_metadata(SqlDeleteMetadataKeys(db, id, to_delete), id,
                       metadata, TRUE)

\* an insert whose statement is never turned into INSERT OR REPLACE
insert_record_plain(db, record, upsert) ==
    LET blob == encode_seq_id(record.seq_id)
    IN IF blob = EncodeError THEN [err |-> "ValueError", db |-> db]
       ELSE LET ins == SqlInsertEmbedding(db, record.id, blob, FALSE)
            IN IF ins.err # Ok THEN [err |-> ins.err, db |-> db]
               ELSE IF record.metadata # NoMetadata
                    THEN IF upsert
                         THEN update_metadata(ins.db, ins.id, record.metadata)
                         ELSE insert_metadata(ins.db, ins.id, record.metadata,
                                              FALSE)
                    ELSE [err |-> Ok, db |-> ins.db]

insert_record(db, record, upsert) ==
    LET blob == encode_seq_id(record.seq_id)
    IN IF blob = EncodeError THEN [err |-> "ValueError", db |-> db]
       ELSE LET ins == SqlInsertEmbedding(db, record.id, blob, upsert)
            IN IF ins.err # Ok THEN [err |-> ins.err, db |-> db]
               ELSE IF record.metadata # NoMetadata
                    THEN IF upsert
                         THEN update_metadata(ins.db, ins.id, record.metadata)
                         ELSE insert_metadata(ins.db, ins.id, record.metadata,
                                              FALSE)
                    ELSE [err |-> Ok, db |-> ins.db]

\* a delete that leaves the metadata rows to a cascade that does not exist
delete_record_no_metadata(db, record) ==
    LET hit == EmbMatching(db, record.id)
    IN IF hit = {}
       THEN [err |-> "TypeError", db |-> db]
       ELSE [err |-> Ok, db |-> [db EXCEPT !.embeddings = @ \ hit]]

delete_record(db, record) ==
    LET hit == EmbMatching(db, record.id)
    IN IF hit = {}
       THEN [err |-> "TypeError", db |-> db]   \* fetchone() is None
       ELSE LET id == (CHOOSE r \in hit : TRUE).id
            IN [err |-> Ok,
                db |-> SqlDeleteMetadata(
                          [db EXCEPT !.embeddings = @ \ hit], id)]

update_record(db, record) ==
    LET blob == encode_seq_id(record.seq_id)
        hit == EmbMatching(db, record.id)
    IN IF blob = EncodeError THEN [err |-> "ValueError", db |-> db]
       ELSE IF hit = {}
       THEN [err |-> "TypeError", db |-> db]   \* fetchone() is None
       ELSE LET id == (CHOOSE r \in hit : TRUE).id
                upd == [db EXCEPT !.embeddings =
                          (@ \ hit) \cup {[r EXCEPT !.seq_id = blob] : r \in hit}]
            IN IF record.metadata # NoMetadata
               THEN update_metadata(upd, id, record.metadata)
               ELSE [err |-> Ok, db |-> upd]

\* a dispatch that treats ADD as UPSERT
apply_record_add_replaces(db, record) ==
    IF record.operation \in {"ADD", "UPSERT"} THEN insert_record(db, record, TRUE)
    ELSE IF record.operation = "DELETE" THEN delete_record(db, record)
    ELSE IF record.operation = "UPDATE" THEN update_record(db, record)
    ELSE [err |-> Ok, db |-> db]

\* the dispatch of one record inside _write_metadata's loop
apply_record(db, record) ==
    IF record.operation = "ADD" THEN insert_record(db, record, FALSE)
    ELSE IF record.operation = "UPSERT" THEN insert_record(db, record, TRUE)
    ELSE IF record.operation = "DELETE" THEN delete_record(db, record)
    ELSE IF record.operation = "UPDATE" THEN update_record(db, record)
    ELSE [err |-> Ok, db |-> db]

(***************************************************************************)
(* Read path of SqliteMetadataSegment                                       *)
(***************************************************************************)
\* the log's floor, Consumer.min_seqid()
min_seqid == <<>>

\* SELECT MAX(seq_id): the greatest blob in SQLite's BLOB order
SqlMaxSeqId(rows) ==
    CHOOSE m \in {r.seq_id : r \in rows} :
        \A r \in rows : r.seq_id = m \/ BlobLess(r.seq_id, m)

max_seqid(db) ==
    LET rows == {r \in db.embeddings : r.segment_id = SegmentId}
    IN IF rows = {} THEN min_seqid
       ELSE decode_seq_id(SqlMaxSeqId(rows))

\* a count of the rows of the metadata table
count_metadata_rows(db) == Cardinality(BagToSet(db.embedding_metadata))

count_metadata(db) ==
    Cardinality({r \in db.embeddings : r.segment_id = SegmentId})

(***************************************************************************)
(* Filter compiler: a where map is a sequence of items [key, op, value];    *)
(* op "lit" is a bare literal                                               *)
(***************************************************************************)
\* the order of TEXT values (binary collation) among the strings of the model
StringOrder == <<"5", "blue", "red">>
StrRank(x) == CHOOSE i \in 1..Len(StringOrder) : StringOrder[i] = x

\* twice the numeric value of a literal (floats are kept in halves)
Halves(value) == IF value.t = "int" THEN 2 * value.n ELSE value.n

Compare(op, x, y) ==
    IF op = "$eq" THEN x = y
    ELSE IF op = "$ne" THEN x # y
    ELSE IF op = "$gt" THEN x > y
    ELSE IF op = "$gte" THEN x >= y
    ELSE IF op = "$lt" THEN x < y
    ELSE IF op = "$lte" THEN x <= y
    ELSE FALSE

\* a comparison `col <op> ?` is true only of a non-NULL column
ColTrue(row, col, op, value) ==
    IF col = "string_value"
    THEN /\ row.string_value # NULL
         /\ value.t = "str"
         /\ Compare(op, StrRank(row.string_value[1]), StrRank(value.s))
    ELSE IF col = "int_value"
    THEN /\ row.int_value # NULL
         /\ value.t # "str"
         /\ Compare(op, 2 * row.int_value[1], Halves(value))
    ELSE /\ row.float_value # NULL
         /\ value.t # "str"
         /\ Compare(op, row.float_value[1], Halves(value))

\* a criterion that compares a number with the column of its own type only
value_criterion_own_column(value, op, row) ==
    LET cols == IF value.t = "str" THEN {"string_value"}
                ELSE IF value.t = "int" THEN {"int_value"}
                ELSE {"float_value"}
    IN IF op = "$ne"
       THEN \A col \in cols : ColTrue(row, col, op, value)
       ELSE \E col \in cols : ColTrue(row, col, op, value)

\* a criterion that compares a number with both numeric columns, whatever
\* the operator
value_criterion_both_columns(value, op, row) ==
    LET cols == IF value.t = "str" THEN {"string_value"}
                ELSE {"int_value", "float_value"}
    IN IF op = "$ne"
       THEN \A col \in cols : ColTrue(row, col, op, value)
       ELSE \E col \in cols : ColTrue(row, col, op, value)

value_criterion(value, op, row) ==
    LET cols == IF value.t = "str" THEN {"string_value"}
                ELSE IF value.t = "int" /\ op \in {"$eq", "$ne"}
                THEN {"int_value"}
                ELSE IF value.t = "float" /\ op \in {"$eq", "$ne"}
                THEN {"float_value"}
                ELSE {"int_value", "float_value"}
    IN IF op = "$ne"
       THEN \A col \in cols : ColTrue(row, col, op, value)
       ELSE \E col \in cols : ColTrue(row, col, op, value)

\* a clause that tests a bare literal on the key alone
where_clause_key_only(field, op, value, row) ==
    IF op = "lit"
    THEN row.key = field
    ELSE row.key = field /\ value_criterion(value, op, row)

where_clause(field, op, value, row) ==
    IF op = "lit"
    THEN row.key = field /\ value_criterion(value, "$eq", row)
    ELSE row.key = field /\ value_criterion(value, op, row)

\* a compiler that looks for a combinator in the first item only
where_unsupported_first(where) ==
    where # <<>> /\ where[1].key \in {"$and", "$or"}

\* whether _where_map_criterion raises NotImplementedError
where_unsupported(where) ==
    \E i \in 1..Len(where) : where[i].key \in {"$and", "$or"}

\* the joins and predicates _where_map_criterion adds, as a test of one row
\* m of the left-joined metadata table: every item needs a row of its own
\* alias with the same id that satisfies the item's clause
where_map_criterion(meta, where, m) ==
    \A i \in 1..Len(where) :
        \E c \in BagToSet(meta) :
            /\ c.id = m.id
            /\ where_clause(where[i].key, where[i].op, where[i].value, c)

(***************************************************************************)
(* get_metadata and the record materializer                                 *)
(***************************************************************************)
\* the value of a row's first non-NULL typed column, as _record reads it
RowValue(row) ==
    IF row.string_value # NULL THEN StrV(row.string_value[1])
    ELSE IF row.int_value # NULL THEN IntV(row.int_value[1])
    ELSE IF row.float_value # NULL THEN FloatV(row.float_value[1])
    ELSE NoneV

\* `metadata or None` of an empty mapping, kept apart from every mapping
MetadataNone == [k \in {"None"} |-> NoneV]

\* a materializer that returns the mapping as it is, empty or not
record_of_mapping(e, rows) ==
    LET keys == {r.key : r \in {x \in rows : RowValue(x) # NoneV}}
        metadata == [k \in keys |->
                       RowValue(CHOOSE r \in rows :
                                   r.key = k /\ RowValue(r) # NoneV)]
    IN [id |-> e.embedding_id, seq_id |-> decode_seq_id(e.seq_id),
        metadata |-> metadata]

\* _record: one MetadataEmbeddingRecord from the joined rows of one id
record_of(e, rows) ==
    LET keys == {r.key : r \in {x \in rows : RowValue(x) # NoneV}}
        metadata == [k \in keys |->
                       RowValue(CHOOSE r \in rows :
                                   r.key = k /\ RowValue(r) # NoneV)]
    IN [id |-> e.embedding_id, seq_id |-> decode_seq_id(e.seq_id),
        metadata |-> IF keys = {} THEN MetadataNone ELSE metadata]

RECURSIVE records_from(_, _, _, _)
\* _records over the query of get_metadata: the groups of the result in id
\* order; rowids is the ascending sequence of row ids still to visit.
\* where = <<>> is None or the empty map (`if where:`); ids = <<>> is no
\* restriction on the external id
records_from(db, where, ids, rowids) ==
    IF rowids = <<>> THEN <<>>
    ELSE LET e == CHOOSE r \in db.embeddings : r.id = Head(rowids)
             joined == {m \in BagToSet(db.embedding_metadata) : m.id = e.id}
             kept == {m \in joined :
                        where_map_criterion(db.embedding_metadata, where, m)}
             inIds == ids = <<>> \/ e.embedding_id \in Range(ids)
             rest == records_from(db, where, ids, Tail(rowids))
         IN IF ~inIds THEN rest
            ELSE IF where = <<>>
            THEN <<record_of(e, joined)>> \o rest
            ELSE IF kept = {} THEN rest
            ELSE <<record_of(e, kept)>> \o rest

RECURSIVE SortedIdsDesc(_)
\* an ORDER BY embeddings.id DESC
SortedIdsDesc(S) == IF S = {} THEN <<>>
                    ELSE LET m == CHOOSE x \in S : \A y \in S : x >= y
                         IN <<m>> \o SortedIdsDesc(S \ {m})

RECURSIVE SortedIds(_)
\* ORDER BY embeddings.id
SortedIds(S) == IF S = {} THEN <<>>
                ELSE LET m == CHOOSE x \in S : \A y \in S : x <= y
                     IN <<m>> \o SortedIds(S \ {m})

\* itertools.islice(seq, start, stop)
islice(seq, start, stop) ==
    SubSeq(seq, start + 1, IF stop < Len(seq) THEN stop ELSE Len(seq))

\* `if ids:` the restriction applies to a non-empty list only
ids_restriction(ids) == IF ids = NULL \/ ids[1] = <<>> THEN <<>> ELSE ids[1]

\* `limit or 2**63 - 1`, given a result of n records (n < 2**63 - 1)
limit_or(limit, n) == IF limit = NULL \/ limit[1] = 0 THEN n ELSE limit[1]

\* `offset or 0`
offset_or(offset) == IF offset = NULL THEN 0 ELSE offset[1]

\* a document filter that is compiled into a clause no row satisfies
where_document_none(where, where_document) ==
    IF where_document = <<>> THEN where
    ELSE where \o <<[key |-> "$document", op |-> "lit", value |-> NoneV]>>

\* `if where_document: pass`: the where map the query is built from is the
\* one it had before (_where_document_query, which returns q, is not called)
where_document_query(where, where_document) == where

\* an optional argument (ids, limit, offset) is NULL for None, <<v>> for v;
\* where and where_document are <<>> for None or the empty map
get_metadata(db, where, where_document, ids, limit, offset) ==
    IF where_unsupported(where)
    THEN [err |-> "NotImplementedError", records |-> <<>>]
    ELSE LET rowids == SortedIds({r.id : r \in {x \in db.embeddings :
                                            x.segment_id = SegmentId}})
             all == records_from(db, where_document_query(where, where_document),
                                 ids_restriction(ids), rowids)
             lim == limit_or(limit, Len(all))
             off == offset_or(offset)
         IN [err |-> Ok, records |-> islice(all, off, off + lim)]

(***************************************************************************)
(* The change log and the segment's life cycle                              *)
(***************************************************************************)
\* 2^63 - 2: the log's SeqIds then cross from the 8-byte to the 24-byte form
NearWide == <<127, 255, 255, 255, 255, 255, 255, 254>>
Bases == {<<>>, NearWide}

Committed == DbOf(embeddings, embedding_metadata, next_rowid)

\* the records the producer may submit
\* (every operation on record "a"; record "b" is only added and deleted)
LogRecords ==
    [id : {"a"}, operation : {"ADD"}, metadata : {NoMetadata, RedFive}]
    \cup [id : {"a"}, operation : {"UPSERT"}, metadata : {RedFive, Blue}]
    \cup [id : {"a"}, operation : {"UPDATE"},
           metadata : {NoMetadata, Blue, DropK1, DropK1SetK2}]
    \cup [id : Ids, operation : {"DELETE"}, metadata : {NoMetadata}]
    \cup [id : {"b"}, operation : {"ADD"}, metadata : {RedFive}]

\* what a reader on another connection sees: committed rows only
ReaderView == Committed

\* the where maps of the concurrent readers
QueryWheres ==
    { <<>>, <<[key |-> "k1", op |-> "lit", value |-> StrV("red")]>> }

\* the producer appends a record; the log assigns the next SeqId
Submit(rec) ==
    /\ Len(log) < MaxLog
    /\ log' = Append(log, [id |-> rec.id, operation |-> rec.operation,
                           metadata |-> rec.metadata,
                           seq_id |-> Plus(base, Len(log) + 1)])
    /\ UNCHANGED <<others, base, embeddings, embedding_metadata, next_rowid, tx,
                   subscription, error, last, obs, crashes, applied>>

\* Consumer.subscribe(topic, callback, start): the position of the first
\* record whose SeqId is not below start
FirstFrom(start) ==
    1 + Cardinality({i \in 1..Len(log) : SeqLess(log[i].seq_id, start)})

\* a start that passes the position after the last applied one
StartArgNext(db) == Succ(max_seqid(db))

\* the start argument SqliteMetadataSegment.start passes to subscribe
StartArg(db) == max_seqid(db)

Start ==
    /\ subscription = None
    /\ LET seq_id == StartArg(Committed)
       IN subscription' = [start |-> seq_id, cursor |-> FirstFrom(seq_id)]
    /\ UNCHANGED <<others, log, base, embeddings, embedding_metadata, next_rowid, tx,
                   error, last, obs, crashes, applied>>

\* the consumer invokes the callback with the next records of the log:
\* _write_metadata enters `with self._db.tx()`
Deliver(n) ==
    /\ subscription # None
    /\ ~tx.open
    /\ subscription.cursor + n - 1 <= Len(log)
    /\ tx' = [open |-> TRUE,
              records |-> SubSeq(log, subscription.cursor,
                                 subscription.cursor + n - 1),
              idx |-> 1,
              pre |-> Committed,
              db |-> Committed]
    /\ subscription' = [subscription EXCEPT !.cursor = @ + n]
    /\ obs' = None
    /\ UNCHANGED <<others, log, base, embeddings, embedding_metadata, next_rowid,
                   error, last, crashes, applied>>

\* a loop that swallows the exception of a record and goes on
write_metadata_step_skip(t, res) ==
    IF res.err = Ok THEN [t EXCEPT !.db = res.db, !.idx = @ + 1]
    ELSE [t EXCEPT !.idx = @ + 1]

\* what one iteration of _write_metadata's loop does to the transaction:
\* an exception leaves the loop and the with block
write_metadata_step(t, res) ==
    IF res.err = Ok THEN [t EXCEPT !.db = res.db, !.idx = @ + 1]
    ELSE [open |-> FALSE, raised |-> res.err]

\* a with block inside the loop: a transaction per record
commit_point_each(t) == t.idx > 1

\* the with block encloses the whole loop: the transaction commits when
\* every record of the batch has been applied
commit_point(t) == t.idx > Len(t.records)

\* one iteration of the loop of _write_metadata
ApplyRecord ==
    /\ tx.open
    /\ tx.idx <= Len(tx.records)
    /\ LET record == tx.records[tx.idx]
           res == apply_record(tx.db, record)
           t == write_metadata_step(tx, res)
       IN /\ last' = [record |-> record, err |-> res.err]
          /\ IF t.open
             THEN /\ tx' = t
                  /\ UNCHANGED error
             ELSE /\ tx' = NoTx
                  /\ error' = t.raised
    /\ obs' = None
    /\ UNCHANGED <<others, log, base, embeddings, embedding_metadata, next_rowid,
                   subscription, crashes, applied>>

\* the transaction of _write_metadata commits; the callback returns when the
\* batch is exhausted
Commit ==
    /\ tx.open
    /\ commit_point(tx)
    /\ tx.db # Committed \/ tx.idx > Len(tx.records)
    /\ embeddings' = tx.db.embeddings
    /\ embedding_metadata' = tx.db.embedding_metadata
    /\ next_rowid' = tx.db.next_rowid
    /\ IF tx.idx > Len(tx.records)
       THEN tx' = NoTx /\ error' = Ok
       ELSE UNCHANGED <<tx, error>>
    /\ obs' = None
    /\ applied' = IF tx.idx > 1 THEN tx.records[tx.idx - 1].seq_id ELSE applied
    /\ UNCHANGED <<others, log, base, subscription, last, crashes>>

\* max_seqid() called by a concurrent reader
ReadMaxSeqId ==
    /\ tx.open
    /\ obs' = [kind |-> "max_seqid", result |-> <<max_seqid(ReaderView)>>]
    /\ UNCHANGED <<others, log, base, embeddings, embedding_metadata, next_rowid, tx,
                   subscription, error, last, crashes, applied>>

\* count_metadata() called by a concurrent reader
ReadCount ==
    /\ tx.open
    /\ obs' = [kind |-> "count", result |-> <<count_metadata(ReaderView)>>]
    /\ UNCHANGED <<others, log, base, embeddings, embedding_metadata, next_rowid, tx,
                   subscription, error, last, crashes, applied>>

\* get_metadata(where) called by a concurrent reader
ReadGetMetadata(where) ==
    /\ tx.open
    /\ obs' = [kind |-> "get_metadata",
               result |-> <<where, get_metadata(ReaderView, where, <<>>, NULL, NULL, NULL)>>]
    /\ UNCHANGED <<others, log, base, embeddings, embedding_metadata, next_rowid, tx,
                   subscription, error, last, crashes, applied>>

\* the process dies: everything in memory is lost, an open transaction is
\* never committed
Crash ==
    /\ subscription # None
    /\ crashes < MaxCrashes
    /\ crashes' = crashes + 1
    /\ tx' = NoTx
    /\ subscription' = None
    /\ error' = Ok
    /\ last' = None
    /\ obs' = None
    /\ UNCHANGED <<others, log, base, embeddings, embedding_metadata, next_rowid,
                   applied>>

\* self._subscription before start() has assigned it: __init__ does not
Unset == <<>>

\* a segment as __init__ leaves it; topic is NULL or <<name>>, subscription
\* is Unset or <<handle>>, raised is what the last call raised
NewSegment(topic) ==
    [topic |-> topic, subscription |-> Unset, calls |-> <<>>, raised |-> Ok]

\* a Consumer nobody has subscribed to
NoSubscriptions == [issued |-> 0, active |-> {}]

ModelSpaces == {"m1", "m2"}

\* the server after its boot script: db(), ann_index(), no request.
\* db is the set of rows of app._db, index[m] is NULL while app._ann_index
\* has no index of model space m and <<uuids>> once it has one, requests
\* are the requests in flight, response is the response sent last (None
\* unless it is the one of a nearest-neighbor query),
\* added counts the records clients have sent
Boot ==
    [db |-> {}, index |-> [m \in ModelSpaces |-> NULL], requests |-> <<>>,
     response |-> None, added |-> 0]

\* no wrapped function has been called
NoCall == [none |-> TRUE]

\* the life cycle, the server and the authorization at rest
OthersAtRest ==
    /\ segment = NewSegment(<<"topic">>)
    /\ consumer = NoSubscriptions
    /\ server = Boot
    /\ authz = NoCall

Init ==
    /\ OthersAtRest
    /\ log = <<>>
    /\ base \in Bases
    /\ embeddings = {}
    /\ embedding_metadata = EmptyBag
    /\ next_rowid = 1
    /\ tx = NoTx
    /\ subscription = None
    /\ error = Ok
    /\ last = None
    /\ obs = None
    /\ crashes = 0
    /\ applied = min_seqid

Next ==
    \/ \E rec \in LogRecords : Submit(rec)
    \/ Start
    \/ \E n \in 1..MaxBatch : Deliver(n)
    \/ ApplyRecord
    \/ Commit
    \/ Crash
    \/ ReadMaxSeqId
    \/ ReadCount
    \/ \E where \in QueryWheres : ReadGetMetadata(where)

Spec == Init /\ [][Next]_vars

(***************************************************************************)
(* Properties                                                               *)
(***************************************************************************)
\* the step is one iteration of _write_metadata's loop, on record Rec
Applying ==
    /\ tx.open
    /\ tx.idx <= Len(tx.records)
    /\ tx' # tx
    /\ crashes' = crashes
Rec == tx.records[tx.idx]

\* the row id of the live record with external id eid
RowIdOf(db, eid) == (CHOOSE r \in EmbMatching(db, eid) : TRUE).id

\* the rows of embedding_metadata of (id, key), with their multiplicity
RowsOf(db, id, key) ==
    LET m == db.embedding_metadata
    IN [r \in {x \in BagToSet(m) : x.id = id /\ x.key = key} |-> CopiesIn(r, m)]

\* what get_metadata(ids=[eid]) returns
Fetch(db, eid) == get_metadata(db, <<>>, <<>>, <<<<eid>>>>, NULL, NULL).records

\* the where maps with one item on key k
LeafOps == {"lit", "$eq", "$ne", "$gt", "$gte", "$lt", "$lte"}
LeafValues == {StrV("red"), StrV("blue"), IntV(5), IntV(7), FloatV(11)}
FiltersOn(k) ==
    {<<[key |-> k, op |-> o, value |-> v]>> : o \in LeafOps, v \in LeafValues}

\* the numerically greatest SeqId among the rows of the segment
GreatestSeqId(db) ==
    LET ids == {decode_seq_id(r.seq_id) : r \in db.embeddings}
    IN CHOOSE m \in ids : \A x \in ids : SeqLeq(x, m)

\* C1: a fresh consumer started after a crash receives exactly the records
\* whose SeqId is greater than the highest SeqId N applied before the crash.
C1_ResumeAfterApplied ==
    [][(subscription = None /\ subscription' # None /\ crashes > 0)
        => subscription'.cursor =
              1 + Cardinality({i \in 1..Len(log) :
                                  SeqLeq(log[i].seq_id, applied)})]_vars

\* C2: the start position start() passes to subscribe is max_seq_id() + 1.
C2_StartIsMaxPlusOne ==
    [][(subscription = None /\ subscription' # None)
        => subscription'.start = Succ(max_seqid(Committed))]_vars

\* C3: after a batch has been applied successfully, max_seq_id() is the SeqId
\* of the last record applied, whatever its operation.
C3_MaxSeqIdIsLastApplied ==
    (~tx.open /\ last # None /\ last.err = Ok)
        => max_seqid(Committed) = last.record.seq_id

C5_BatchAllOrNothing ==
    [][(Applying /\ apply_record(tx.db, Rec).err # Ok)
        => /\ ~tx'.open
           /\ error' = apply_record(tx.db, Rec).err
           /\ DbOf(embeddings', embedding_metadata', next_rowid') = tx.pre
           /\ Committed = tx.pre]_vars

\* the second record of a batch failed after the first had been applied
C5_Witness ==
    /\ ~tx.open
    /\ last # None
    /\ last.err # Ok
    /\ error = last.err
    /\ Len(log) = 2
    /\ last.record = log[2]
    /\ log[1].operation = "ADD"
    /\ embeddings = {}
    /\ embedding_metadata = EmptyBag

\* what a read of the given kind returns on database state db
ReadOf(db, o) ==
    IF o.kind = "max_seqid" THEN <<max_seqid(db)>>
    ELSE IF o.kind = "count" THEN <<count_metadata(db)>>
    ELSE <<o.result[1], get_metadata(db, o.result[1], <<>>, NULL, NULL, NULL)>>

\* C6: a read that runs while a batch is being applied returns what it
\* returns on the state before the batch.
C6_ReadsSeeBatchBoundary ==
    (tx.open /\ obs # None) => obs.result = ReadOf(tx.pre, obs)

\* a read ran while the open transaction had already changed what it returns
C6_Witness ==
    /\ tx.open
    /\ obs # None
    /\ tx.idx > 1
    /\ ReadOf(tx.db, obs) # ReadOf(tx.pre, obs)

\* C7: max_seq_id() is min_seq_id() on an empty segment and the numerically
\* greatest SeqId of the segment's rows otherwise.
C7_MaxSeqIdIsGreatest ==
    max_seqid(Committed) =
        IF embeddings = {} THEN min_seqid ELSE GreatestSeqId(Committed)

\* C8: an UPDATE that sets a value v for a key k the record already has
\* succeeds and leaves one row (record, k) with v; get_metadata then returns
\* v under k and the keys the update does not name as before.
C8_UpdateReplacesValue ==
    [][(/\ Applying
        /\ Rec.operation = "UPDATE"
        /\ EmbMatching(tx.db, Rec.id) # {}
        /\ \E k \in DOMAIN Rec.metadata :
              /\ Rec.metadata[k].t # "none"
              /\ MetaCount(tx.db.embedding_metadata, RowIdOf(tx.db, Rec.id), k) > 0)
        => /\ tx'.open
           /\ LET id == RowIdOf(tx.db, Rec.id)
                  after == Fetch(tx'.db, Rec.id)[1].metadata
              IN \A k \in Keys :
                    IF k \in DOMAIN Rec.metadata
                    THEN Rec.metadata[k].t # "none"
                         => /\ MetaCount(tx'.db.embedding_metadata, id, k) = 1
                            /\ after[k] = Rec.metadata[k]
                    ELSE RowsOf(tx'.db, id, k) = RowsOf(tx.db, id, k)]_vars

\* C9: an UPDATE of an existing record that maps a key to None removes the
\* row of that key, leaves the keys it does not name as they were, and no
\* where map on the removed key matches the record afterwards.
C9_UpdateNoneRemovesKey ==
    [][(/\ Applying
        /\ Rec.operation = "UPDATE"
        /\ EmbMatching(tx.db, Rec.id) # {}
        /\ \E k \in DOMAIN Rec.metadata : Rec.metadata[k].t = "none")
        => /\ tx'.open
           /\ LET id == RowIdOf(tx.db, Rec.id)
              IN \A k \in Keys :
                    IF k \in DOMAIN Rec.metadata
                    THEN Rec.metadata[k].t = "none"
                         => /\ MetaCount(tx'.db.embedding_metadata, id, k) = 0
                            /\ \A w \in FiltersOn(k) :
                                  get_metadata(tx'.db, w, <<>>, <<<<Rec.id>>>>, NULL, NULL).records
                                      = <<>>
                    ELSE RowsOf(tx'.db, id, k) = RowsOf(tx.db, id, k)]_vars

\* C10: a DELETE of an existing record removes, in the transaction of its
\* batch, the primary row and every metadata row of its row id; the record
\* is gone from get_metadata and count.
C10_DeleteRemovesAllRows ==
    [][(/\ Applying
        /\ Rec.operation = "DELETE"
        /\ EmbMatching(tx.db, Rec.id) # {})
        => /\ tx'.open
           /\ EmbMatching(tx'.db, Rec.id) = {}
           /\ \A m \in BagToSet(tx'.db.embedding_metadata) :
                 m.id # RowIdOf(tx.db, Rec.id)
           /\ count_metadata(tx'.db) = count_metadata(tx.db) - 1
           /\ Fetch(tx'.db, Rec.id) = <<>>
           /\ \A i \in DOMAIN get_metadata(tx'.db, <<>>, <<>>, NULL, NULL, NULL).records :
                 get_metadata(tx'.db, <<>>, <<>>, NULL, NULL, NULL).records[i].id # Rec.id]_vars

\* a record with two metadata keys was deleted and the batch committed
C10_Witness ==
    /\ ~tx.open
    /\ error = Ok
    /\ Len(log) = 2
    /\ log[1].operation = "ADD"
    /\ log[1].metadata = RedFive
    /\ log[2].operation = "DELETE"
    /\ log[2].id = log[1].id
    /\ last # None
    /\ last.record = log[2]
    /\ last.err = Ok
    /\ applied = log[2].seq_id
    /\ embeddings = {}
    /\ embedding_metadata = EmptyBag

\* the database states of the step's successor: committed and in transaction
DbsAfter ==
    {DbOf(embeddings', embedding_metadata', next_rowid')}
    \cup (IF tx'.open THEN {tx'.db} ELSE {})

\* what the read API shows of a database state
Observable(db) ==
    <<get_metadata(db, <<>>, <<>>, NULL, NULL, NULL), count_metadata(db),
      max_seqid(db)>>

\* C11: the primary table never holds two rows of one (segment, external id),
\* and an UPSERT of an external id that is present succeeds and leaves the
\* one row of that id, carrying the UPSERT's SeqId.
C11_OneRowPerExternalId ==
    [][/\ \A db \in DbsAfter : \A eid \in Ids :
             Cardinality(EmbMatching(db, eid)) <= 1
       /\ (/\ Applying
           /\ Rec.operation = "UPSERT"
           /\ EmbMatching(tx.db, Rec.id) # {})
          => /\ tx'.open
             /\ Cardinality(EmbMatching(tx'.db, Rec.id)) = 1
             /\ \A r \in EmbMatching(tx'.db, Rec.id) :
                   decode_seq_id(r.seq_id) = Rec.seq_id
             /\ count_metadata(tx'.db) = count_metadata(tx.db)]_vars

\* an UPSERT replaced the row of a record that was there, and committed
C11_Witness ==
    /\ ~tx.open
    /\ error = Ok
    /\ Len(log) = 2
    /\ log[1].operation \in {"ADD", "UPSERT"}
    /\ log[2].operation = "UPSERT"
    /\ log[2].id = log[1].id
    /\ last # None
    /\ last.record = log[2]
    /\ last.err = Ok
    /\ applied = log[2].seq_id
    /\ Cardinality(embeddings) = 1

\* the UPSERT records applied a second time in C12
UpsertProbes ==
    [id : Ids, operation : {"UPSERT"},
     metadata : {NoMetadata, RedFive, Blue, DropK1},
     seq_id : {Plus(base, Len(log) + 1)}]

\* C12: between batches, applying an UPSERT record again right after it has
\* been applied succeeds and changes nothing of what get_metadata, count and
\* max_seq_id return.
C12_UpsertIdempotent ==
    ~tx.open
        => \A r \in UpsertProbes :
              LET one == insert_record(Committed, r, TRUE)
                  two == insert_record(one.db, r, TRUE)
              IN one.err = Ok
                 => two.err = Ok /\ Observable(two.db) = Observable(one.db)

\* the log delivered the same UPSERT again after a crash; both were committed
C12_Witness ==
    /\ crashes = 1
    /\ ~tx.open
    /\ error = Ok
    /\ Len(log) = 1
    /\ log[1].operation = "UPSERT"
    /\ last # None
    /\ last.record = log[1]
    /\ last.err = Ok
    /\ \E e \in embeddings : e.id = 2 /\ e.embedding_id = log[1].id

\* C13: a plain ADD of an external id that is present fails with the store's
\* conflict error, inserts nothing and leaves the record as it was.
C13_AddConflicts ==
    [][(/\ Applying
        /\ Rec.operation = "ADD"
        /\ EmbMatching(tx.db, Rec.id) # {})
        => /\ apply_record(tx.db, Rec).err = "IntegrityError"
           /\ apply_record(tx.db, Rec).db = tx.db
           /\ ~tx'.open
           /\ error' = "IntegrityError"
           /\ DbOf(embeddings', embedding_metadata', next_rowid') = Committed]_vars

\* an ADD hit a committed record, which is still there with its metadata
C13_Witness ==
    /\ ~tx.open
    /\ error = "IntegrityError"
    /\ last # None
    /\ last.record.operation = "ADD"
    /\ last.err = "IntegrityError"
    /\ Len(log) = 2
    /\ log[1].metadata = RedFive
    /\ log[1].operation = "ADD"
    /\ last.record = log[2]
    /\ applied = log[1].seq_id
    /\ Fetch(Committed, last.record.id) =
          <<[id |-> log[1].id, seq_id |-> log[1].seq_id, metadata |-> RedFive]>>

\* C14: an UPDATE or DELETE of an external id that is absent fails with a
\* not-found error and leaves the store unchanged.
C14_MissingIsNotFound ==
    [][(/\ Applying
        /\ Rec.operation \in {"UPDATE", "DELETE"}
        /\ EmbMatching(tx.db, Rec.id) = {})
        => /\ ~tx'.open
           /\ error' = "NotFoundError"
           /\ DbOf(embeddings', embedding_metadata', next_rowid') = Committed]_vars

(***************************************************************************)
(* Queries: single-record batches followed by get_metadata calls           *)
(***************************************************************************)
MaxWrites == 2

BlueFive == [k \in {"k1", "k2"} |-> IF k = "k1" THEN StrV("blue") ELSE IntV(5)]
OnlyK2(v) == [k \in {"k2"} |-> v]

\* the metadata of the records written before a query
\* (floats in halves: 11 is 5.5, 10 is 5.0)
QueryMetadata ==
    {NoMetadata, RedFive, BlueFive, OnlyK2(IntV(6)), OnlyK2(FloatV(11)),
     OnlyK2(FloatV(10)), OnlyK2(StrV("5"))}

QueryRecords ==
    [id : Ids, operation : {"ADD"}, metadata : QueryMetadata]
    \cup [id : {"a"}, operation : {"UPSERT"}, metadata : {RedFive}]
    \cup [id : {"a"}, operation : {"DELETE"}, metadata : {NoMetadata}]

Leaf(k, o, v) == [key |-> k, op |-> o, value |-> v]

\* a top-level combinator item; its operand is never looked at
Combinator(k) == [key |-> k, op |-> "lit", value |-> NoneV]

QueryLiterals == {StrV("red"), StrV("5"), IntV(5), IntV(6), FloatV(10)}

\* where maps made of leaves: every one-item map, and some two-item maps
LeafWheres ==
    {<<Leaf(k, o, v)>> : k \in Keys, o \in LeafOps, v \in QueryLiterals}
    \cup {<<Leaf("k1", "lit", StrV("red")), Leaf("k2", "lit", IntV(5))>>,
          <<Leaf("k2", "$gte", IntV(5)), Leaf("k1", "$ne", StrV("red"))>>,
          <<Leaf("k2", "$ne", IntV(6)), Leaf("k1", "$lte", StrV("red"))>>}

\* where maps with a top-level $and or $or, first, last, in between or alone
CombinatorWheres ==
    {<<Combinator(c)>> : c \in {"$and", "$or"}}
    \cup {<<Combinator(c), Leaf("k1", "lit", StrV("red"))>> : c \in {"$and", "$or"}}
    \cup {<<Leaf("k1", "lit", StrV("red")), Combinator(c)>> : c \in {"$and", "$or"}}
    \cup {<<Leaf("k1", "lit", StrV("red")), Combinator(c),
            Leaf("k2", "$gt", IntV(5))>> : c \in {"$and", "$or"}}

\* the where maps of the paginated queries
PageWheres == {<<>>, <<Leaf("k2", "$gte", IntV(5))>>}
PageIds == {NULL, <<<<>>>>, <<<<"a">>>>, <<<<"b", "a">>>>}
PageCounts == {NULL, <<0>>, <<1>>, <<2>>}

\* document filters: {"$contains": text}
DocumentFilters ==
    {<<[key |-> "$contains", value |-> t]>> : t \in {"red", "green"}}

\* the arguments of the calls with a document filter
DocumentWheres ==
    {<<>>, <<Leaf("k1", "lit", StrV("red"))>>,
     <<Leaf("k1", "lit", StrV("red")), Combinator("$or")>>}
DocumentIds == {NULL, <<<<"a">>>>}
DocumentCounts == {NULL, <<1>>}

\* the consumer delivers one record and _write_metadata applies it in a
\* transaction of its own: committed if it succeeds, rolled back if it raises
WriteRecord(rec) ==
    /\ LET record == [id |-> rec.id, operation |-> rec.operation,
                      metadata |-> rec.metadata,
                      seq_id |-> Plus(base, Len(log) + 1)]
           t0 == [open |-> TRUE, records |-> <<record>>, idx |-> 1,
                  pre |-> Committed, db |-> Committed]
           res == apply_record(Committed, record)
           t == write_metadata_step(t0, res)
       IN /\ log' = Append(log, record)
          /\ last' = [record |-> record, err |-> res.err]
          /\ IF t.open /\ commit_point(t)
             THEN /\ embeddings' = t.db.embeddings
                  /\ embedding_metadata' = t.db.embedding_metadata
                  /\ next_rowid' = t.db.next_rowid
                  /\ applied' = record.seq_id
                  /\ error' = Ok
             ELSE /\ error' = t.raised
                  /\ UNCHANGED <<embeddings, embedding_metadata, next_rowid,
                                 applied>>
    /\ obs' = None
    /\ UNCHANGED <<others, base, tx, subscription, crashes>>

\* one of the writes that precede a query
Write(rec) == Len(log) < MaxWrites /\ WriteRecord(rec)

\* get_metadata(where=where); obs holds the one call under observation, which
\* the next write discards
QueryWhere(where) ==
    /\ obs = None
    /\ obs' = [kind |-> "get_metadata", where |-> where,
               where_document |-> <<>>, ids |-> NULL,
               limit |-> NULL, offset |-> NULL,
               result |-> get_metadata(Committed, where, <<>>, NULL, NULL, NULL)]
    /\ UNCHANGED <<others, log, base, embeddings, embedding_metadata, next_rowid, tx,
                   subscription, error, last, crashes, applied>>

\* get_metadata(where=where, ids=ids, <<>>, limit=limit, offset=offset)
QueryPage(where, ids, limit, offset) ==
    /\ obs = None
    /\ obs' = [kind |-> "get_metadata", where |-> where,
               where_document |-> <<>>, ids |-> ids,
               limit |-> limit, offset |-> offset,
               result |-> get_metadata(Committed, where, <<>>, ids, limit, offset)]
    /\ UNCHANGED <<others, log, base, embeddings, embedding_metadata, next_rowid, tx,
                   subscription, error, last, crashes, applied>>

\* get_metadata(where, where_document, ids, limit, offset) with a document
\* filter
QueryDocument(where, where_document, ids, limit, offset) ==
    /\ obs = None
    /\ obs' = [kind |-> "get_metadata", where |-> where,
               where_document |-> where_document, ids |-> ids,
               limit |-> limit, offset |-> offset,
               result |-> get_metadata(Committed, where, where_document, ids,
                                       limit, offset)]
    /\ UNCHANGED <<others, log, base, embeddings, embedding_metadata, next_rowid, tx,
                   subscription, error, last, crashes, applied>>

\* the store of a fresh segment, nothing delivered and nothing read yet
StoreAtRest ==
    /\ log = <<>>
    /\ base = min_seqid
    /\ embeddings = {}
    /\ embedding_metadata = EmptyBag
    /\ next_rowid = 1
    /\ tx = NoTx
    /\ subscription = None
    /\ error = Ok
    /\ last = None
    /\ obs = None
    /\ crashes = 0
    /\ applied = min_seqid

InitQ ==
    /\ OthersAtRest
    /\ log = <<>>
    /\ base = min_seqid
    /\ embeddings = {}
    /\ embedding_metadata = EmptyBag
    /\ next_rowid = 1
    /\ tx = NoTx
    /\ subscription = None
    /\ error = Ok
    /\ last = None
    /\ obs = None
    /\ crashes = 0
    /\ applied = min_seqid

NextQ ==
    \/ \E rec \in QueryRecords : Write(rec)
    \/ \E where \in LeafWheres \cup CombinatorWheres : QueryWhere(where)
    \/ \E where \in PageWheres : \E ids \in PageIds :
          \E limit \in PageCounts : \E offset \in PageCounts :
             QueryPage(where, ids, limit, offset)
    \/ \E where \in DocumentWheres : \E where_document \in DocumentFilters :
          \E ids \in DocumentIds : \E limit \in DocumentCounts :
             \E offset \in DocumentCounts :
                QueryDocument(where, where_document, ids, limit, offset)

SpecQ == InitQ /\ [][NextQ]_vars

\* a get_metadata call has been observed
Queried == obs # None

\* C15: get_metadata with a where map that has a top-level $and or $or key,
\* wherever the key stands in the map, fails with the unsupported-filter
\* error and returns no records.
C15_CombinatorFailsLoudly ==
    (Queried /\ \E i \in 1..Len(obs.where) : obs.where[i].key \in {"$and", "$or"})
        => obs.result = [err |-> "NotImplementedError", records |-> <<>>]

\* a map whose combinator comes after a leaf that matches a stored record
C15_Witness ==
    /\ Queried
    /\ Len(obs.where) = 3
    /\ obs.where[2].key = "$or"
    /\ obs.result.err = "NotImplementedError"
    /\ get_metadata(Committed, <<obs.where[1]>>, <<>>, NULL, NULL, NULL).records # <<>>

\* the external ids of the segment's records
Live(db) == {e.embedding_id : e \in db.embeddings}

\* the value record eid holds under key k, NoneV if it holds none
Stored(db, eid, k) ==
    LET metadata == Fetch(db, eid)[1].metadata
    IN IF k \in DOMAIN metadata THEN metadata[k] ELSE NoneV

\* the call had no ids, limit or offset
Unpaged == obs.ids = NULL /\ obs.limit = NULL /\ obs.offset = NULL

ResultIds == {obs.result.records[i].id : i \in DOMAIN obs.result.records}

OrderingOps == {"$gt", "$gte", "$lt", "$lte"}
Numeric(v) == v.t \in {"int", "float"}

\* C16: where {k: {"$ne": 5}} does not return a record that stores the
\* integer 5 under k and returns a record that stores only the string "5"
\* under k.
C16_NeIntKeepsString ==
    (/\ Queried
     /\ Unpaged
     /\ Len(obs.where) = 1
     /\ obs.where[1].op = "$ne"
     /\ obs.where[1].value = IntV(5))
        => \A eid \in Live(Committed) :
              LET v == Stored(Committed, eid, obs.where[1].key)
              IN /\ v = IntV(5) => eid \notin ResultIds
                 /\ v = StrV("5") => eid \in ResultIds

\* C17: an ordering leaf with a numeric literal returns the records whose
\* value under the key is a number, integer or float, that stands in the
\* relation to the literal: $gt 5 returns 5.5 and 6, not 5 and not 5.0.
C17_OrderingComparesBothColumns ==
    (/\ Queried
     /\ Unpaged
     /\ Len(obs.where) = 1
     /\ obs.where[1].op \in OrderingOps
     /\ Numeric(obs.where[1].value))
        => ResultIds =
              {eid \in Live(Committed) :
                  LET v == Stored(Committed, eid, obs.where[1].key)
                  IN /\ Numeric(v)
                     /\ Compare(obs.where[1].op, Halves(v),
                                Halves(obs.where[1].value))}

\* $gt 5 on a record holding 5.5 and a record holding 5.0
C17_Witness ==
    /\ Queried
    /\ obs.where = <<Leaf("k2", "$gt", IntV(5))>>
    /\ Live(Committed) = {"a", "b"}
    /\ Stored(Committed, "a", "k2") = FloatV(11)
    /\ Stored(Committed, "b", "k2") = FloatV(10)
    /\ ResultIds = {"a"}

\* whether a leaf holds of a record's metadata: equality is of type and
\* value, $ne is its negation on a record that has the key, an ordering
\* compares numbers with numbers and strings with strings
LeafHolds(metadata, item) ==
    LET v == IF item.key \in DOMAIN metadata THEN metadata[item.key] ELSE NoneV
        lit == item.value
        op == IF item.op = "lit" THEN "$eq" ELSE item.op
    IN /\ v # NoneV
       /\ IF op = "$eq" THEN v = lit
          ELSE IF op = "$ne" THEN v # lit
          ELSE \/ Numeric(v) /\ Numeric(lit)
                  /\ Compare(op, Halves(v), Halves(lit))
               \/ v.t = "str" /\ lit.t = "str"
                  /\ Compare(op, StrRank(v.s), StrRank(lit.s))

\* the records of seq for which every leaf of where holds
Matching(seq, where) ==
    SelectSeq(seq, LAMBDA r : \A i \in 1..Len(where) :
                                 LeafHolds(r.metadata, where[i]))

\* C18: get_metadata with a where map of leaves returns, in row id order,
\* exactly the records for which every leaf holds, each once and with all of
\* its metadata.
C18_WhereReturnsExactlyMatching ==
    (Queried /\ Unpaged /\ obs.where \in LeafWheres)
        => /\ obs.result.err = Ok
           /\ obs.result.records =
                 Matching(get_metadata(Committed, <<>>, <<>>, NULL, NULL, NULL).records,
                          obs.where)

\* C19: the records get_metadata returns are in strictly ascending order of
\* row id, whatever the where map, ids, limit and offset.
C19_AscendingRowId ==
    Queried
        => \A i, j \in DOMAIN obs.result.records :
              i < j => RowIdOf(Committed, obs.result.records[i].id)
                         < RowIdOf(Committed, obs.result.records[j].id)

\* a filtered, limited call returned b before a: b was inserted first
C19_Witness ==
    /\ Queried
    /\ obs.where # <<>>
    /\ obs.ids = <<<<"b", "a">>>>
    /\ obs.limit = <<2>>
    /\ Len(obs.result.records) = 2
    /\ obs.result.records[1].id = "b"
    /\ obs.result.records[2].id = "a"
    /\ RowIdOf(Committed, "b") < RowIdOf(Committed, "a")

\* the page of seq the arguments ask for: the records whose id is in ids,
\* without the first offset of them, and no more than limit of the rest
PageOf(seq, ids, limit, offset) ==
    LET chosen == IF ids = NULL THEN seq
                  ELSE SelectSeq(seq, LAMBDA r : r.id \in Range(ids[1]))
        skip == IF offset = NULL THEN 0 ELSE offset[1]
        rest == SubSeq(chosen, skip + 1, Len(chosen))
    IN IF limit = NULL \/ limit[1] >= Len(rest) THEN rest
       ELSE SubSeq(rest, 1, limit[1])

\* C20: get_metadata(ids, limit, <<>>, offset) returns the records that pass the
\* where map and whose id is in ids, in row id order, without the first
\* offset of them and at most limit of them when a limit is given.
C20_Pagination ==
    (Queried /\ obs.result.err = Ok)
        => obs.result.records =
              PageOf(get_metadata(Committed, obs.where, <<>>, NULL, NULL, NULL).records,
                     obs.ids, obs.limit, obs.offset)

\* C21: a get_metadata call with a document filter is not rejected for the
\* filter and returns what the same call without a document filter returns.
C21_DocumentFilterIsNoOp ==
    (Queried /\ obs.where_document # <<>>)
        => obs.result = get_metadata(Committed, obs.where, <<>>, obs.ids,
                                     obs.limit, obs.offset)

\* a call with a document filter returned a record
C21_Witness ==
    /\ Queried
    /\ obs.where_document # <<>>
    /\ obs.where # <<>>
    /\ obs.result.err = Ok
    /\ obs.result.records # <<>>
    /\ Cardinality(Live(Committed)) = 2

\* the rows of embedding_metadata of the record with external id eid
MetadataRows(db, eid) ==
    {m \in BagToSet(db.embedding_metadata) : m.id = RowIdOf(db, eid)}

\* C22: get_metadata returns a record without metadata rows with metadata
\* None, and a record with metadata rows with a non-empty mapping that has
\* one value for each stored key, the stored one.
C22_NoRowsIsNone ==
    (Queried /\ obs.result.err = Ok)
        => \A i \in DOMAIN obs.result.records :
              LET r == obs.result.records[i]
                  rows == MetadataRows(Committed, r.id)
              IN IF rows = {}
                 THEN r.metadata = MetadataNone
                 ELSE /\ r.metadata # MetadataNone
                      /\ DOMAIN r.metadata = {m.key : m \in rows}
                      /\ \A m \in rows :
                            /\ r.metadata[m.key] = RowValue(m)
                            /\ MetaCount(embedding_metadata, m.id, m.key) = 1

\* one call returned a record without metadata and a record with two keys
C22_Witness ==
    /\ Queried
    /\ Len(obs.result.records) = 2
    /\ obs.result.records[1].metadata = MetadataNone
    /\ MetadataRows(Committed, obs.result.records[1].id) = {}
    /\ obs.result.records[2].metadata = RedFive

\* C23: a where leaf given as a bare literal returns what the same leaf with
\* an explicit $eq returns.
C23_LiteralIsEq ==
    (Queried /\ Len(obs.where) = 1 /\ obs.where[1].op = "lit")
        => obs.result =
              get_metadata(Committed,
                           <<Leaf(obs.where[1].key, "$eq", obs.where[1].value)>>,
                           obs.where_document, obs.ids, obs.limit, obs.offset)

\* a bare literal selected one of two records
C23_Witness ==
    /\ Queried
    /\ Len(obs.where) = 1
    /\ obs.where[1].op = "lit"
    /\ Cardinality(Live(Committed)) = 2
    /\ Len(obs.result.records) = 1

(***************************************************************************)
(* The SeqId codec on its own                                               *)
(***************************************************************************)
MaxBytes == 25

RECURSIVE Fill(_, _)
Fill(x, n) == IF n = 0 THEN <<>> ELSE <<x>> \o Fill(x, n - 1)

\* SeqIds of every length up to MaxBytes bytes around the powers of two:
\* 0, and a leading byte 1, 127, 128 or 255 followed by zeros or by 255s
CodecValues ==
    {<<>>} \cup {<<h>> \o Fill(f, n - 1) :
                   h \in {1, 127, 128, 255}, f \in {0, 255}, n \in 1..MaxBytes}

\* byte strings of every length up to MaxBytes + 1
CodecBlobs ==
    {Fill(f, n) : f \in {0, 255}, n \in 0..(MaxBytes + 1)}
    \cup {<<1>> \o Fill(0, n) : n \in 0..MaxBytes}

\* _encode_seq_id(seq_id)
Encode(seq_id) ==
    /\ obs' = [kind |-> "encode", input |-> seq_id,
               output |-> encode_seq_id(seq_id)]
    /\ UNCHANGED <<others, log, base, embeddings, embedding_metadata, next_rowid, tx,
                   subscription, error, last, crashes, applied>>

\* _decode_seq_id(seq_id_bytes)
Decode(seq_id_bytes) ==
    /\ obs' = [kind |-> "decode", input |-> seq_id_bytes,
               output |-> decode_seq_id(seq_id_bytes)]
    /\ UNCHANGED <<others, log, base, embeddings, embedding_metadata, next_rowid, tx,
                   subscription, error, last, crashes, applied>>

\* _decode_seq_id of what _encode_seq_id has just returned for obs.input
DecodeEncoded ==
    /\ obs # None
    /\ obs.kind = "encode"
    /\ obs.output # EncodeError
    /\ obs' = [kind |-> "roundtrip", input |-> obs.input,
               output |-> decode_seq_id(obs.output)]
    /\ UNCHANGED <<others, log, base, embeddings, embedding_metadata, next_rowid, tx,
                   subscription, error, last, crashes, applied>>

NextC ==
    \/ \E seq_id \in CodecValues : Encode(seq_id)
    \/ \E seq_id_bytes \in CodecBlobs : Decode(seq_id_bytes)
    \/ DecodeEncoded

SpecC == InitQ /\ [][NextC]_vars

\* the codec call under observation is of the given kind
Called(kind) == obs # None /\ obs.kind = kind

\* C24: encode succeeds for every SeqId that is representable in 64 or in
\* 192 bits, and decoding what encode returned gives the SeqId back.
C24_CodecRoundTrip ==
    /\ (Called("encode") /\ bit_length(obs.input) <= 192)
          => obs.output # EncodeError
    /\ Called("roundtrip") => obs.output = obs.input

\* C25: encode returns the 8-byte form of a value that fits in 64 bits, the
\* 24-byte form of a larger value that fits in 192 bits, and fails exactly
\* for the values that need more than 192 bits.
C25_WidthByMagnitude ==
    Called("encode")
        => obs.output =
              IF bit_length(obs.input) <= 64 THEN to_bytes(obs.input, 8)
              ELSE IF bit_length(obs.input) <= 192 THEN to_bytes(obs.input, 24)
              ELSE EncodeError

\* C26: decode returns the big-endian value of a byte string of length 8 or
\* 24, fails with the unknown-encoding error for every other length, the
\* empty byte string included, and leaves the store as it is.
C26_DecodeLengths ==
    [][(\E b \in CodecBlobs : Decode(b))
        => /\ obs'.output = IF Len(obs'.input) \in {8, 24}
                            THEN Strip(obs'.input)
                            ELSE EncodeError
           /\ UNCHANGED <<embeddings, embedding_metadata, next_rowid>>]_vars

\* decode refused a byte string whose length is neither 8 nor 24
C26_Witness ==
    /\ Called("decode")
    /\ Len(obs.input) = 9
    /\ obs.input[1] = 1
    /\ obs.output = EncodeError

(***************************************************************************)
(* The life cycle of the segment: start() and stop()                        *)
(***************************************************************************)
MaxCalls == 6

\* the variables of the metadata store and of its log
store == <<log, base, embeddings, embedding_metadata, next_rowid, tx,
           subscription, error, last, obs, crashes, applied>>

\* Consumer.subscribe: a fresh handle, active from now on
subscribe(con) ==
    [issued |-> con.issued + 1, active |-> con.active \cup {con.issued + 1}]

\* Consumer.unsubscribe(handle): the handle is no longer active
unsubscribe(con, h) == [con EXCEPT !.active = @ \ {h}]

\* start(): a segment with a topic subscribes and keeps the handle
SegmentStart ==
    /\ Len(segment.calls) < MaxCalls
    /\ IF segment.topic # NULL
       THEN /\ consumer' = subscribe(consumer)
            /\ segment' = [segment EXCEPT
                              !.subscription = <<consumer'.issued>>,
                              !.calls = Append(@, "start"),
                              !.raised = Ok]
       ELSE /\ segment' = [segment EXCEPT !.calls = Append(@, "start"),
                                          !.raised = Ok]
            /\ UNCHANGED consumer
    /\ UNCHANGED <<store, server, authz>>

\* what stop() raises: reading an attribute that was never assigned
stop_error(seg) == IF seg.subscription = Unset THEN "AttributeError" ELSE Ok

\* stop(): unsubscribes self._subscription, which it leaves assigned
SegmentStop ==
    /\ Len(segment.calls) < MaxCalls
    /\ IF stop_error(segment) = Ok
       THEN consumer' = unsubscribe(consumer, segment.subscription[1])
       ELSE UNCHANGED consumer
    /\ segment' = [segment EXCEPT !.calls = Append(@, "stop"),
                                  !.raised = stop_error(segment)]
    /\ UNCHANGED <<store, server, authz>>

InitL ==
    /\ StoreAtRest
    /\ segment \in {NewSegment(NULL), NewSegment(<<"topic">>)}
    /\ consumer = NoSubscriptions
    /\ server = Boot
    /\ authz = NoCall

NextL == SegmentStart \/ SegmentStop

SpecL == InitL /\ [][NextL]_vars

\* the last call made on the segment, "" before the first
LastCall ==
    IF segment.calls = <<>> THEN "" ELSE segment.calls[Len(segment.calls)]

\* C27: a segment with a topic holds, after any sequence of start() and
\* stop() calls, at most one active subscription: the one the last start()
\* obtained, and none after stop().
C27_OneSubscription ==
    segment.topic # NULL
        => /\ Cardinality(consumer.active) <= 1
           /\ LastCall = "start" => consumer.active = {segment.subscription[1]}
           /\ LastCall = "stop" => consumer.active = {}

\* start() has never subscribed: the segment has no topic or start() was
\* never called
NeverSubscribed ==
    segment.topic = NULL \/ \A i \in DOMAIN segment.calls : segment.calls[i] # "start"

\* C35: stop() on a segment that has no topic, or on which start() was never
\* called, completes without error and unsubscribes nothing.
C35_StopIsSafe ==
    (LastCall = "stop" /\ NeverSubscribed)
        => segment.raised = Ok /\ consumer = NoSubscriptions

(***************************************************************************)
(* chroma-server (chroma_server/api.py): requests against app._db and       *)
(* app._ann_index.  A handler is a coroutine; pc is the call it is in.      *)
(***************************************************************************)
MaxRequests == 2
MaxRecords == 2

\* a request as it arrives; model_space and label_class are NULL or <<v>>
Request(handler, model_space, label_class, n_results) ==
    [handler |-> handler, model_space |-> model_space,
     label_class |-> label_class, n_results |-> n_results,
     pc |-> "pending", fetched |-> {}, ids |-> NULL, uuids |-> {},
     embeddings |-> {}, error |-> Ok]

\* the records clients add
AddRequests ==
    {Request("add", <<"m1">>, <<l>>, 0) : l \in {"x", "y"}}
    \cup {Request("add", <<"m2">>, <<"x">>, 0)}

\* the other requests clients send
Requests ==
    {Request("create_index", <<m>>, NULL, 0) : m \in ModelSpaces}
    \cup {Request("process", <<"m1">>, NULL, 0),
          Request("get_results", <<"m1">>, NULL, 1),
          Request("reset", NULL, NULL, 0),
          Request("get_nearest_neighbors", NULL, NULL, 1),
          Request("get_nearest_neighbors", <<"m1">>, NULL, 1),
          Request("get_nearest_neighbors", <<"m1">>, <<"x">>, 2)}

\* a client sends a request, which waits for the event loop
Arrive(req) ==
    /\ Len(server.requests) < MaxRequests
    /\ server' = [server EXCEPT !.requests = Append(@, req)]
    /\ UNCHANGED <<store, segment, consumer, authz>>

\* whether request i has begun and not returned
Started(requests, i) == requests[i].pc # "pending"

\* a scheduler that runs every handler in a thread of its own
may_step_threads(requests, i) == TRUE

\* the event loop runs one coroutine at a time and a handler, `async def`
\* without an await, never yields: request i may take a step when no other
\* request is in the middle of its handler
may_step(requests, i) ==
    \A j \in DOMAIN requests : j # i => ~Started(requests, j)

\* request i goes on to its next call
Goto(srv, i, r) == [srv EXCEPT !.requests[i] = r]

\* what a handler returns: the ids and embeddings of a nearest-neighbor
\* query or its error; the model keeps nothing of the other responses
Body(r) ==
    IF r.handler = "get_nearest_neighbors"
    THEN [handler |-> r.handler, ids |-> r.uuids,
          embeddings |-> r.embeddings, error |-> r.error]
    ELSE None

\* request i returns: it leaves the requests in flight
Return(srv, i, r) ==
    [srv EXCEPT !.requests = SubSeq(@, 1, i - 1) \o SubSeq(@, i + 1, Len(@)),
                !.response = Body(r)]

\* app._db.fetch(where): the uuids of the rows that match
fetch(db, model_space, label_class) ==
    {row.uuid : row \in {x \in db :
        /\ x.model_space = model_space[1]
        /\ label_class # NULL => x.label_class = label_class[1]}}

\* app._ann_index.has_index(model_space)
has_index(index, model_space) == index[model_space[1]] # NULL

\* app._ann_index.get_nearest_neighbors(model_space, embedding, n_results,
\* ids): the sets of uuids the search may return, up to n_results of the
\* indexed uuids that are in ids
search(index, model_space, n_results, ids) ==
    LET indexed == index[model_space[1]][1]
        eligible == IF ids = NULL THEN indexed ELSE indexed \cap ids[1]
        k == IF n_results < Cardinality(eligible) THEN n_results
             ELSE Cardinality(eligible)
    IN {U \in SUBSET eligible : Cardinality(U) = k}

\* a query that searches the whole index
search_ids_none(ids) == NULL

\* the ids argument of the search: the uuids fetched with the filter
search_ids(ids) == <<ids>>

\* add: app._db.add(...), which gives the record the next uuid; the
\* handler makes this one call, so the request arrives and returns here
Add(req) ==
    /\ server.added < MaxRecords
    /\ may_step(server.requests, 0)
    /\ server' = [server EXCEPT
                     !.db = @ \cup {[uuid |-> server.added + 1,
                                     model_space |-> req.model_space[1],
                                     label_class |-> req.label_class[1]]},
                     !.added = @ + 1,
                     !.response = Body(req)]
    /\ UNCHANGED <<store, segment, consumer, authz>>

\* create_index and process: fetch the model space, then app._ann_index.run
\* (process goes on to queue a task for the worker)
CreateIndex(i) ==
    /\ i \in DOMAIN server.requests
    /\ may_step(server.requests, i)
    /\ LET r == server.requests[i]
       IN /\ r.handler \in {"create_index", "process"}
          /\ IF r.pc = "pending"
             THEN server' = Goto(server, i,
                       [r EXCEPT !.pc = "run",
                                 !.fetched = fetch(server.db, r.model_space, NULL)])
             ELSE server' = Return([server EXCEPT
                                       !.index[r.model_space[1]] = <<r.fetched>>],
                                   i, r)
    /\ UNCHANGED <<store, segment, consumer, authz>>

\* get_nearest_neighbors: fetch the candidates, search, get_by_ids
GetNearestNeighbors(i) ==
    /\ i \in DOMAIN server.requests
    /\ may_step(server.requests, i)
    /\ LET r == server.requests[i]
       IN /\ r.handler = "get_nearest_neighbors"
          /\ IF r.pc = "pending"
             THEN IF r.model_space = NULL
                  THEN server' = Return(server, i,
                            [r EXCEPT !.error = "model_space is required"])
                  ELSE LET ids == fetch(server.db, r.model_space, r.label_class)
                       IN server' = Goto(server, i,
                              [r EXCEPT !.pc = "search", !.fetched = ids,
                                        !.ids = search_ids(ids)])
             ELSE IF r.pc = "search"
             THEN IF has_index(server.index, r.model_space)
                  THEN \E uuids \in search(server.index, r.model_space,
                                           r.n_results, r.ids) :
                          server' = Goto(server, i,
                              [r EXCEPT !.pc = "get_by_ids", !.uuids = uuids])
                  ELSE server' = Return(server, i, [r EXCEPT !.error = "no index"])
             ELSE server' = Return(server, i,
                      [r EXCEPT !.embeddings =
                                   {row \in server.db : row.uuid \in r.uuids}])
    /\ UNCHANGED <<store, segment, consumer, authz>>

\* get_results: build the index if there is none, then the offline analysis
GetResults(i) ==
    /\ i \in DOMAIN server.requests
    /\ may_step(server.requests, i)
    /\ LET r == server.requests[i]
       IN /\ r.handler = "get_results"
          /\ IF r.pc = "pending"
             THEN IF ~has_index(server.index, r.model_space)
                  THEN server' = Goto(server, i,
                            [r EXCEPT !.pc = "run",
                                      !.fetched = fetch(server.db, r.model_space,
                                                        NULL)])
                  ELSE server' = Goto(server, i, [r EXCEPT !.pc = "results"])
             ELSE IF r.pc = "run"
             THEN server' = Goto([server EXCEPT
                                     !.index[r.model_space[1]] = <<r.fetched>>],
                                 i, [r EXCEPT !.pc = "results"])
             ELSE server' = Return(server, i, r)
    /\ UNCHANGED <<store, segment, consumer, authz>>

\* reset: a new database, reset, then a new index, reset
Reset(i) ==
    /\ i \in DOMAIN server.requests
    /\ may_step(server.requests, i)
    /\ LET r == server.requests[i]
       IN /\ r.handler = "reset"
          /\ IF r.pc = "pending"
             THEN server' = Goto([server EXCEPT !.db = {}], i,
                                 [r EXCEPT !.pc = "index_reset"])
             ELSE server' = Return([server EXCEPT
                                       !.index = [m \in ModelSpaces |-> NULL]],
                                   i, r)
    /\ UNCHANGED <<store, segment, consumer, authz>>

InitA ==
    /\ StoreAtRest
    /\ OthersAtRest

NextA ==
    \/ \E req \in Requests : Arrive(req)
    \/ \E req \in AddRequests : Add(req)
    \/ \E i \in 1..MaxRequests :
          \/ CreateIndex(i)
          \/ GetNearestNeighbors(i)
          \/ GetResults(i)
          \/ Reset(i)

SpecA == InitA /\ [][NextA]_vars

\* the requests in flight
InFlight == {server.requests[i] : i \in DOMAIN server.requests}

\* C28: a nearest-neighbor query searches a model space only when
\* has_index is true of it: no search is issued against a model space whose
\* index has not been built.
C28_SearchOnlyBuiltIndex ==
    \A r \in InFlight :
        (r.handler = "get_nearest_neighbors" /\ r.pc = "search")
            => has_index(server.index, r.model_space)

\* request r is inside app._ann_index.run for model space m
Building(r, m) == r.pc = "run" /\ r.model_space = <<m>>

\* request r is inside a call that reads or replaces the index of m
UsingIndex(r, m) ==
    \/ r.pc \in {"run", "search"} /\ r.model_space = <<m>>
    \/ r.pc = "index_reset"

\* C29: while a request builds the index of a model space, no other request
\* searches, builds or resets the index of that model space.
C29_BuildExcludesIndexUse ==
    \A i, j \in DOMAIN server.requests : \A m \in ModelSpaces :
        (i # j /\ Building(server.requests[i], m))
            => ~UsingIndex(server.requests[j], m)

\* a build is in progress while a query on the same model space waits
C29_Witness ==
    \E i, j \in DOMAIN server.requests :
        /\ Building(server.requests[i], "m1")
        /\ server.requests[i].fetched # {}
        /\ server.requests[j].handler = "get_nearest_neighbors"
        /\ server.requests[j].model_space = <<"m1">>
        /\ server.requests[j].pc = "pending"

\* C30: a nearest-neighbor query fetches the uuids that match its filter,
\* passes exactly them as the ids of the search, and gets the embeddings of
\* exactly the uuids the search returned; the ids of the response are among
\* the fetched ones.
C30_FilterThenSearchThenFetch ==
    [][\A i \in DOMAIN server.requests :
          LET r == server.requests[i]
          IN GetNearestNeighbors(i)
             => /\ (r.pc = "pending" /\ r.model_space # NULL)
                   => /\ server'.requests[i].pc = "search"
                      /\ server'.requests[i].fetched =
                            fetch(server.db, r.model_space, r.label_class)
                      /\ server'.requests[i].ids =
                            <<server'.requests[i].fetched>>
                /\ (r.pc = "search" /\ has_index(server.index, r.model_space))
                   => /\ server'.requests[i].pc = "get_by_ids"
                      /\ server'.requests[i].uuids \subseteq r.fetched
                /\ r.pc = "get_by_ids"
                   => /\ server'.response.ids = r.uuids
                      /\ {e.uuid : e \in server'.response.embeddings} = r.uuids
                      /\ server'.response.ids \subseteq r.fetched]_vars

\* a query answered with one of the two indexed records of its model space
C30_Witness ==
    /\ server.response # None
    /\ server.response.error = Ok
    /\ Cardinality(server.response.ids) = 1
    /\ {e.uuid : e \in server.response.embeddings} = server.response.ids
    /\ server.index["m1"] = <<{1, 2}>>
    /\ Cardinality({row \in server.db : row.label_class = "x"}) = 1
    /\ \A e \in server.response.embeddings : e.label_class = "x"

\* C33: a leaf with `$eq`, `$ne` or a bare literal, and every leaf with a
\* string literal, compares the column of the literal's own type only: the
\* records it returns store a value of the literal's type under the key, so
\* `$eq` 5 does not return a record storing the float 5.0 and `$eq` 5.0 does
\* not return one storing the integer 5.
C33_EqComparesOwnColumn ==
    (/\ Queried
     /\ obs.result.err = Ok
     /\ Unpaged
     /\ Len(obs.where) = 1
     /\ \/ obs.where[1].op \in {"lit", "$eq", "$ne"}
        \/ obs.where[1].value.t = "str")
        => \A eid \in ResultIds :
              Stored(Committed, eid, obs.where[1].key).t = obs.where[1].value.t

\* a record stores the float 5.0 under k2: `$eq` 5 does not return it,
\* `$gte` 5 does
C33_Witness ==
    /\ Queried
    /\ Unpaged
    /\ obs.where = <<Leaf("k2", "$eq", IntV(5))>>
    /\ \E eid \in Live(Committed) :
          /\ Stored(Committed, eid, "k2") = FloatV(10)
          /\ eid \notin ResultIds
          /\ \E i \in DOMAIN get_metadata(Committed,
                                          <<Leaf("k2", "$gte", IntV(5))>>,
                                          <<>>, NULL, NULL, NULL).records :
                get_metadata(Committed, <<Leaf("k2", "$gte", IntV(5))>>,
                             <<>>, NULL, NULL, NULL).records[i].id = eid

(***************************************************************************)
(* Writes: single-record batches of every operation, and count_metadata     *)
(***************************************************************************)
MaxOps == 3

\* the records delivered to the segment: every operation on record "a", with
\* no metadata, with values and with None values; some on record "b"
WriteRecords ==
    [id : {"a"}, operation : {"ADD"},
     metadata : {NoMetadata, RedFive, DropK1SetK2}]
    \cup [id : {"a"}, operation : {"UPSERT"},
           metadata : {NoMetadata, RedFive, Blue, DropK1SetK2}]
    \cup [id : {"a"}, operation : {"UPDATE"},
           metadata : {NoMetadata, Blue, DropK1}]
    \cup [id : Ids, operation : {"DELETE"}, metadata : {NoMetadata}]
    \cup [id : {"b"}, operation : {"ADD"}, metadata : {RedFive}]
    \cup [id : {"b"}, operation : {"UPSERT"}, metadata : {Blue}]

\* the consumer delivers the next record of the log
Apply(rec) == Len(log) < MaxOps /\ WriteRecord(rec)

\* count_metadata() between two batches
CountMetadata ==
    /\ obs = None
    /\ obs' = [kind |-> "count", result |-> <<count_metadata(Committed)>>]
    /\ UNCHANGED <<others, log, base, embeddings, embedding_metadata,
                   next_rowid, tx, subscription, error, last, crashes, applied>>

InitW == StoreAtRest /\ OthersAtRest

NextW ==
    \/ \E rec \in WriteRecords : Apply(rec)
    \/ CountMetadata

SpecW == InitW /\ [][NextW]_vars

RECURSIVE LiveAfter(_)
\* the external ids added or upserted and not deleted since, by the records
\* of seq in order
LiveAfter(seq) ==
    IF seq = <<>> THEN {}
    ELSE LET r == seq[Len(seq)]
             before == LiveAfter(SubSeq(seq, 1, Len(seq) - 1))
         IN IF r.operation \in {"ADD", "UPSERT"} THEN before \cup {r.id}
            ELSE IF r.operation = "DELETE" THEN before \ {r.id}
            ELSE before

\* count_metadata() has been observed
Counted == obs # None /\ obs.kind = "count"

\* C31: count() is the number of live records: the number of distinct
\* external ids added or upserted and not deleted since, whatever was
\* applied in between; an UPSERT or UPDATE of an existing id does not change
\* it.
C31_CountIsLiveRecords ==
    /\ count_metadata(Committed) = Cardinality(LiveAfter(log))
    /\ Counted => obs.result = <<Cardinality(LiveAfter(log))>>

\* record "a" was added, upserted and updated, and the count is 1
C31_Witness ==
    /\ Counted
    /\ Len(log) = 3
    /\ log[1].id = "a" /\ log[1].operation = "ADD"
    /\ log[2].id = "a" /\ log[2].operation = "UPSERT"
    /\ log[3].id = "a" /\ log[3].operation = "UPDATE"
    /\ error = Ok
    /\ obs.result = <<1>>

\* the typed columns of a row that are not NULL
TypedColumns(row) ==
    {c \in {"string_value", "int_value", "float_value"} : row[c] # NULL}

\* the batch applied last was committed
Applied == last # None /\ last.err = Ok /\ error = Ok

\* C32: every row of embedding_metadata has exactly one of string_value,
\* int_value, float_value non-null; a key whose value is None in an ADD,
\* UPSERT or UPDATE has no row of the record after it.
C32_OneTypedColumn ==
    /\ \A row \in BagToSet(embedding_metadata) :
            Cardinality(TypedColumns(row)) = 1
    /\ (Applied /\ last.record.operation \in {"ADD", "UPSERT", "UPDATE"})
          => \A k \in DOMAIN last.record.metadata :
                last.record.metadata[k] = NoneV
                   => RowsOf(Committed, RowIdOf(Committed, last.record.id), k)
                        = EmptyBag

\* an ADD with a None value under k1 and 7 under k2 wrote the row of k2
C32_Witness ==
    /\ Applied
    /\ last.record.operation = "ADD"
    /\ last.record.metadata = DropK1SetK2
    /\ \E row \in BagToSet(RowsOf(Committed,
                                   RowIdOf(Committed, last.record.id), "k2")) :
           row.int_value = <<7>>

\* the row ids of the primary rows
PrimaryIds(db) == {e.id : e \in db.embeddings}

\* C34: no orphan rows: after any sequence of ADD, UPSERT, UPDATE and DELETE
\* every row of embedding_metadata carries the row id of an existing row of
\* embeddings; an UPSERT that replaces a record leaves no row under the
\* replaced row id.
C34_NoOrphanRows ==
    \A row \in BagToSet(embedding_metadata) : row.id \in PrimaryIds(Committed)

(***************************************************************************)
(* authz_context (chromadb/auth/fastapi.py): the decorator that authorizes  *)
(* a call before the wrapped function runs.  request is request_var.get(),  *)
(* NULL or <<[user_identity]>>; user_identity is NULL when request.state    *)
(* has no such attribute; provider is authz_provider.get(), NULL or         *)
(* <<grants>>, grants being the (user id, action) pairs it authorizes.      *)
(***************************************************************************)
\* request.state.user_identity of an authenticated request
Identities ==
    [user_id : {"alice"}, tenant : {NULL, <<"t1">>},
     databases : {<<>>, <<"d1">>, <<"d1", "d2">>}]

AuthzRequests ==
    {NULL} \cup {<<[user_identity |-> u]>> :
                    u \in {NULL} \cup {<<i>> : i \in Identities}}

GrantSets ==
    { {}, {<<"alice", "read">>}, {<<"alice", "write">>},
      {<<"Anonymous", "read">>},
      {<<"alice", "read">>, <<"alice", "write">>},
      {<<"Anonymous", "write">>, <<"alice", "write">>} }

Providers == {NULL} \cup {<<g>> : g \in GrantSets}

\* the decorator's `action`: one action (is_list FALSE) or a list of them
OneAction(a) == [is_list |-> FALSE, one |-> a, many |-> <<>>]
ActionList(l) == [is_list |-> TRUE, one |-> "", many |-> l]

ActionArgs ==
    {OneAction("read"), OneAction("write"), ActionList(<<>>),
     ActionList(<<"read">>), ActionList(<<"read", "write">>),
     ActionList(<<"write", "read">>)}

\* the keyword arguments of the call
Kwargs == [tenant |-> "default_tenant", database |-> "default_database"]

\* ServerAuthorizationProvider.authorize(context)
authorize(provider, context) ==
    <<context.user, context.action>> \in provider[1]

\* whether request.state has the attribute user_identity
has_user_identity(request) == request[1].user_identity # NULL

\* the user id of the AuthorizationContext
user_id(request) ==
    IF has_user_identity(request) THEN request[1].user_identity[1].user_id
    ELSE "Anonymous"

a_list(action) == IF ~action.is_list THEN <<action.one>> ELSE action.many

\* a_authz_responses: one response per listed action if a provider is set
a_authz_responses(request, provider, action) ==
    IF provider = NULL THEN <<>>
    ELSE [i \in 1..Len(a_list(action)) |->
            authorize(provider, [user |-> user_id(request),
                                 action |-> a_list(action)[i]])]

\* a test that lets a call without any response pass
any_or_none(responses) ==
    responses = <<>> \/ \E i \in DOMAIN responses : responses[i]

any(responses) == \E i \in DOMAIN responses : responses[i]

\* the keyword arguments after the overwrite of tenant and database from the
\* user's identity
overwrite_kwargs(identity, kwargs) ==
    [tenant |-> IF identity.tenant # NULL THEN identity.tenant[1]
                ELSE kwargs.tenant,
     database |-> IF Len(identity.databases) = 1 THEN identity.databases[1]
                  ELSE kwargs.database]

\* wrapped(*args, **kwargs): whether f was executed, with which keyword
\* arguments, and what the call raised
wrapped(request, provider, action, overwrite, kwargs) ==
    IF request = NULL
    THEN [executed |-> FALSE, raised |-> Ok, kwargs |-> kwargs]
    ELSE IF ~any(a_authz_responses(request, provider, action))
    THEN [executed |-> FALSE, raised |-> "AuthorizationError", kwargs |-> kwargs]
    ELSE IF ~overwrite
    THEN [executed |-> TRUE, raised |-> Ok, kwargs |-> kwargs]
    ELSE IF ~has_user_identity(request)
    THEN [executed |-> FALSE, raised |-> "AttributeError", kwargs |-> kwargs]
    ELSE [executed |-> TRUE, raised |-> Ok,
          kwargs |-> overwrite_kwargs(request[1].user_identity[1], kwargs)]

\* a call of a function decorated with authz_context(action, resource)
Wrapped(request, provider, action, overwrite) ==
    /\ authz' = [request |-> request, provider |-> provider,
                 action |-> action, overwrite |-> overwrite,
                 result |-> wrapped(request, provider, action, overwrite,
                                    Kwargs)]
    /\ UNCHANGED <<store, segment, consumer, server>>

InitZ == StoreAtRest /\ OthersAtRest

NextZ ==
    \E request \in AuthzRequests : \E provider \in Providers :
       \E action \in ActionArgs : \E overwrite \in BOOLEAN :
          Wrapped(request, provider, action, overwrite)

SpecZ == InitZ /\ [][NextZ]_vars

\* a request is in context
InContext == authz.request # NULL

\* the provider authorizes the requesting user for one of the listed actions
Authorized ==
    /\ authz.provider # NULL
    /\ \E i \in DOMAIN a_list(authz.action) :
          <<user_id(authz.request), a_list(authz.action)[i]>>
              \in authz.provider[1]

\* C36: a function wrapped by authz_context is executed only when a request
\* is in context and the provider has authorized one of the listed actions
\* for the requesting user; with a request in context and no listed action
\* authorized, or no provider, AuthorizationError is raised; with no request
\* in context the function is not executed.
C36_ExecutedOnlyIfAuthorized ==
    authz # NoCall
        => /\ authz.result.executed => (InContext /\ Authorized)
           /\ (InContext /\ ~Authorized)
                 => /\ authz.result.raised = "AuthorizationError"
                    /\ ~authz.result.executed
           /\ ~InContext => ~authz.result.executed

\* alice, authorized to read only, calls a function that lists write and
\* read: the function runs
C36_Witness ==
    /\ authz # NoCall
    /\ InContext
    /\ user_id(authz.request) = "alice"
    /\ authz.provider = <<{<<"alice", "read">>}>>
    /\ authz.action = ActionList(<<"write", "read">>)
    /\ authz.result.executed

====
